---- MODULE Spec2Model ----
(***************************************************************************)
(* A state-machine model of app.py, the Streamlit AI-tutor application:    *)
(* the per-browser session state (st.session_state), the Firestore 'users' *)
(* collection, and one action per user interaction (a form submit or a     *)
(* button click, i.e. one script run of main()).                           *)
(*                                                                         *)
(* Text (a password aside) is a sequence of string tokens; the empty text  *)
(* is << >>.  Python's None is the string None for names and the record    *)
(* NoData for the session's user_data.                                     *)
(***************************************************************************)
EXTENDS Integers, Sequences, FiniteSets, TLC

VARIABLES
    config,   \* process configuration: which credentials are available
    store,    \* Firestore collection 'users': username -> document
    ss,       \* st.session_state of every browser session
    last,     \* history: the interaction that produced this state
    work,     \* history: how much of MaxWork the run has spent
    pc        \* where the script run of every browser session stands

vars == <<config, store, ss, last, work, pc>>

(***************************************************************************)
(* Bounds of the model and program constants                               *)
(***************************************************************************)
\* The interactions of one run that are charged a token, submit a study
\* subject or update the profile are at most MaxWork; the others are free.
MaxWork == 3

initial_tokens == 1000
IMAGE_GENERATION_COST == 50
MAX_SUBJECTS == 5

Sessions == {"s1", "s2"}        \* browser sessions
Usernames == {"alice", "bob"}
Passwords == {"pw1", "pw2"}
Salts == {"saltA", "saltB"}     \* outcomes of bcrypt.gensalt()
Grades == {"High School"}

None == "<None>"
NoData == [none |-> TRUE]
Placeholder == "-- Select a Subject --"

available_subjects ==
    << "English A", "Mathematics", "Biology", "Integrated Science",
       "Agricultural Science", "Chemistry", "Human and Social Biology",
       "Physics", "Social Studies", "Principles of Business", "Geography" >>


\* The subject of the study-session selector that the model exercises (the
\* transcripts stored by earlier use are about another one, Mathematics).
StudySubjects == {"Biology"}

(***************************************************************************)
(* Credential service                                                      *)
(***************************************************************************)
\* bcrypt's digest of a password under a salt (injective in both).
Digest(salt, password) == <<"bcrypt", salt, password>>

hash_password(password, salt) == [salt |-> salt, digest |-> Digest(salt, password)]

\* Mutant of check_password: every password is accepted.
check_password_Any(password, hashed_password) == TRUE

check_password(password, hashed_password) ==
    Digest(hashed_password.salt, password) = hashed_password.digest

(***************************************************************************)
(* User repository                                                         *)
(***************************************************************************)
Exists(st, username) == username \in DOMAIN st

\* doc_ref.set(data): the document becomes data.
SetDoc(st, username, data) ==
    [u \in DOMAIN st \cup {username} |-> IF u = username THEN data ELSE st[u]]

\* doc_ref.set(data, merge=True): the fields of data overwrite, the others stay.
MergeDoc(st, username, data) ==
    LET old == IF Exists(st, username) THEN st[username] ELSE << >>
        merged == [f \in DOMAIN old \cup DOMAIN data |->
                      IF f \in DOMAIN data THEN data[f] ELSE old[f]]
    IN  SetDoc(st, username, merged)

\* doc_ref.update({field: value}) on an existing document.
UpdateField(st, username, field, value) ==
    [st EXCEPT ![username] =
        [f \in DOMAIN @ \cup {field} |-> IF f = field THEN value ELSE @[f]]]

default_preferences ==
    [style |-> "interactive", pace |-> "moderate", difficulty |-> "beginner"]

\* The document register_page writes for a new user.
NewUserDoc(form, salt) ==
    [ first_name |-> form.first_name,
      last_name |-> form.last_name,
      email |-> form.email,
      username |-> form.username,
      password_hash |-> hash_password(form.password, salt),
      tokens |-> initial_tokens,
      learning_preferences |-> default_preferences,
      subjects |-> << >>,
      chat_history |-> << >> ]

(***************************************************************************)
(* Session state                                                           *)
(***************************************************************************)
\* hist_alias: whether st.session_state.chat_history is the very list object
\* held in st.session_state.user_data['chat_history'] (it is after a login,
\* until chat_history is rebound to a fresh list).
InitSession ==
    [ logged_in |-> FALSE,
      current_page |-> "login",
      username |-> None,
      user_data |-> NoData,
      chat_history |-> << >>,
      hist_alias |-> FALSE,
      current_study_subject |-> None,
      subject_context_loaded |-> FALSE,
      active_syllabus |-> << >>,
      active_subject_context |-> << >>,
      generating_image |-> FALSE ]

firebase_initialized == config.firebase_key
openai_initialized == config.openai_key

\* A script run that is not in progress, and one that has passed the checks
\* of register_page for form and is about to write the new document.
Idle == [at |-> "idle"]
AtRegisterWrite(form) == [at |-> "register_write", form |-> form]

NoOp == [op |-> "init", outcome |-> "none", sid |-> "s1", calls |-> << >>]

\* The record of an interaction by session s: which handler ran, how it
\* ended (outcome) and the external API calls it issued, in order (calls).
Did(s, op, outcome, calls) ==
    [op |-> op, outcome |-> outcome, sid |-> s, calls |-> calls]

(***************************************************************************)
(* Initial states                                                          *)
(***************************************************************************)
GreetingOf(subject) == <<"Hello", subject>>
SyllabusText(subject) == <<"syl", subject>>
ContextText(subject) == <<"con", subject>>

initial_system_prompt(subject, grade, syllabus, context) ==
    <<"tutor", subject, grade>> \o syllabus \o context

Msg(role, content) == [role |-> role, content |-> content]

SeedTranscript(subject, grade, syllabus, context) ==
    << Msg("system", initial_system_prompt(subject, grade, syllabus, context)),
       Msg("assistant", GreetingOf(subject)) >>

\* A user registered earlier as alice/pw1, left with t tokens and transcript h.
AliceDoc(t, h) ==
    [ NewUserDoc([first_name |-> "Alice", last_name |-> "A", email |-> "a@x",
                  username |-> "alice", password |-> "pw1"], "saltA")
      EXCEPT !.tokens = t, !.chat_history = h ]

\* The documents earlier use of the program may have left alice with: one
\* token or the price of one illustration, and the transcript of a started
\* study session.
InitDocs ==
    { AliceDoc(t, SeedTranscript("Mathematics", "High School",
                                 SyllabusText("Mathematics"),
                                 ContextText("Mathematics"))) :
        t \in {1, IMAGE_GENERATION_COST} }

Init ==
    /\ config \in [firebase_key : BOOLEAN, openai_key : BOOLEAN]
    /\ \E doc \in InitDocs : store = [u \in {"alice"} |-> doc]
    /\ ss = [s \in Sessions |-> InitSession]
    /\ last = NoOp
    /\ work = 0
    /\ pc = [s \in Sessions |-> Idle]

(***************************************************************************)
(* main(): sidebar navigation and logout                                   *)
(***************************************************************************)
Navigate(s, page) ==
    /\ IF ss[s].logged_in THEN page \in {"profile", "tutor"}
                          ELSE page \in {"login", "register"}
    /\ ss' = [ss EXCEPT ![s].current_page = page]
    /\ last' = Did(s, "navigate", "ok", << >>)
    /\ UNCHANGED <<pc, config, store, work>>

Logout(s) ==
    /\ ss[s].logged_in
    /\ ss' = [ss EXCEPT ![s].logged_in = FALSE,
                        ![s].username = None,
                        ![s].user_data = NoData,
                        ![s].chat_history = << >>,
                        ![s].hist_alias = FALSE,
                        ![s].current_page = "login"]
    /\ last' = Did(s, "logout", "ok", << >>)
    /\ UNCHANGED <<pc, config, store, work>>

(***************************************************************************)
(* login_page()                                                            *)
(***************************************************************************)
LoginOutcome(st, username, password) ==
    IF ~Exists(st, username) THEN "not_found"
    ELSE IF check_password(password, st[username].password_hash) THEN "ok"
    ELSE "bad_password"

\* Mutant of LoginSession: the flag is set without a username and a record.
LoginSession_NoRecord(x, st, username) ==
    [x EXCEPT !.logged_in = TRUE, !.current_page = "tutor"]

\* The session after a successful login: the record is read from the store
\* and the transcript is the list held by that record.
LoginSession(x, st, username) ==
    [x EXCEPT !.logged_in = TRUE,
              !.username = username,
              !.user_data = st[username],
              !.chat_history = st[username].chat_history,
              !.hist_alias = TRUE,
              !.current_page = "tutor"]

Login(s, username, password) ==
    /\ ss[s].current_page = "login"
    /\ firebase_initialized
    /\ LET outcome == LoginOutcome(store, username, password) IN
       /\ ss' = IF outcome = "ok"
                THEN [ss EXCEPT ![s] = LoginSession(ss[s], store, username)]
                ELSE ss
       /\ last' = Did(s, "login", outcome, << >>)
    /\ UNCHANGED <<pc, config, store, work>>

\* The "Register Here" / "Login Here" links of the two forms.
FormLink(s) ==
    /\ ss[s].current_page \in {"login", "register"}
    /\ firebase_initialized
    /\ ss' = [ss EXCEPT ![s].current_page =
                  IF @ = "login" THEN "register" ELSE "login"]
    /\ last' = Did(s, "link", "ok", << >>)
    /\ UNCHANGED <<pc, config, store, work>>

(***************************************************************************)
(* register_page()                                                         *)
(***************************************************************************)
ValidForm(username, password) ==
    [ first_name |-> "F", last_name |-> "L", username |-> username,
      email |-> "e@x", password |-> password, confirm_password |-> password ]

\* The submitted forms: the valid ones, one with each required field left
\* empty, and one whose confirmation differs.
RegForms ==
    LET valid == {ValidForm("bob", "pw2"), ValidForm("alice", "pw1"),
                  ValidForm("alice", "pw2")}
        base == ValidForm("bob", "pw2")
    IN  valid
        \cup {[base EXCEPT ![f] = ""] :
                 f \in {"first_name", "last_name", "username", "email"}}
        \cup {[base EXCEPT !.password = "", !.confirm_password = ""],
              [base EXCEPT !.confirm_password = "pw1"],
              [ValidForm("alice", "pw2") EXCEPT !.confirm_password = "pw1"]}

\* Mutant of RegisterOutcome: the existence check is left out.
RegisterOutcome_NoExistsCheck(st, form) ==
    IF form.password # form.confirm_password THEN "mismatch"
    ELSE IF \/ form.username = "" \/ form.password = "" \/ form.first_name = ""
            \/ form.last_name = "" \/ form.email = ""
         THEN "empty_field"
    ELSE "created"

\* Mutant of RegisterOutcome: the confirmation is not compared.
RegisterOutcome_NoConfirmCheck(st, form) ==
    IF \/ form.username = "" \/ form.password = "" \/ form.first_name = ""
       \/ form.last_name = "" \/ form.email = ""
    THEN "empty_field"
    ELSE IF Exists(st, form.username) THEN "exists"
    ELSE "created"

RegisterOutcome(st, form) ==
    IF form.password # form.confirm_password THEN "mismatch"
    ELSE IF \/ form.username = "" \/ form.password = "" \/ form.first_name = ""
            \/ form.last_name = "" \/ form.email = ""
         THEN "empty_field"
    ELSE IF Exists(st, form.username) THEN "exists"
    ELSE "created"

\* salt is what bcrypt.gensalt() returns; it is drawn only when a record is
\* created.
Register(s, form, salt) ==
    /\ ss[s].current_page = "register"
    /\ firebase_initialized
    /\ RegisterOutcome(store, form) # "created" => salt = "saltA"
    /\ LET outcome == RegisterOutcome(store, form) IN
       /\ store' = IF outcome = "created"
                   THEN SetDoc(store, form.username, NewUserDoc(form, salt))
                   ELSE store
       /\ ss' = IF outcome = "created"
                THEN [ss EXCEPT ![s].current_page = "login"]
                ELSE ss
       /\ last' = Did(s, "register", outcome, << >>)
    /\ UNCHANGED <<pc, config, work>>

\* register_page() as two steps of a script run that other browser sessions
\* interleave with: the checks up to user_doc_ref.get().exists, and then the
\* write of the new document.  A form that the checks turn down writes
\* nothing, so Register covers it.
RegisterCheck(s, form) ==
    /\ ss[s].current_page = "register"
    /\ firebase_initialized
    /\ pc[s] = Idle
    /\ RegisterOutcome(store, form) = "created"
    /\ pc' = [pc EXCEPT ![s] = AtRegisterWrite(form)]
    /\ last' = Did(s, "register_check", "new", << >>)
    /\ UNCHANGED <<config, store, ss, work>>

RegisterWrite(s, salt) ==
    /\ pc[s].at = "register_write"
    /\ store' = SetDoc(store, pc[s].form.username, NewUserDoc(pc[s].form, salt))
    /\ ss' = [ss EXCEPT ![s].current_page = "login"]
    /\ pc' = [pc EXCEPT ![s] = Idle]
    /\ last' = Did(s, "register", "created", << >>)
    /\ UNCHANGED <<config, work>>

(***************************************************************************)
(* update_user_data, save_chat_history and the transcript list             *)
(***************************************************************************)
\* Both writers do nothing unless the session has a username and a user
\* record and the database client exists.
CanWrite(x) == x.username # None /\ x.user_data # NoData /\ firebase_initialized

\* update_user_data(data): merge data into the user's document and make it
\* the session's user record.  The result is the session and the store.
update_user_data(x, st, data) ==
    IF CanWrite(x)
    THEN [x |-> [x EXCEPT !.user_data = data],
          st |-> MergeDoc(st, x.username, data), ok |-> TRUE]
    ELSE [x |-> x, st |-> st, ok |-> FALSE]

\* save_chat_history(): write the session transcript into the document.
save_chat_history(x, st) ==
    IF CanWrite(x) THEN UpdateField(st, x.username, "chat_history", x.chat_history)
    ELSE st

\* Mutant of AppendMsg: the message is put in front of the list.
AppendMsg_Front(x, msg) ==
    [x EXCEPT !.chat_history = <<msg>> \o @,
              !.user_data = IF x.hist_alias
                            THEN [@ EXCEPT !.chat_history = <<msg>> \o @]
                            ELSE @]

\* st.session_state.chat_history.append(msg): the list object is changed in
\* place, so user_data['chat_history'] changes with it while it is that list.
AppendMsg(x, msg) ==
    [x EXCEPT !.chat_history = Append(@, msg),
              !.user_data = IF x.hist_alias
                            THEN [@ EXCEPT !.chat_history = Append(@, msg)]
                            ELSE @]

\* Mutant of ClearHistory: the old list is kept.
ClearHistory_Keep(x) == x

\* st.session_state.chat_history = []: a fresh list.
ClearHistory(x) == [x EXCEPT !.chat_history = << >>, !.hist_alias = FALSE]

(***************************************************************************)
(* profile_page()                                                          *)
(***************************************************************************)
ProfileReady(s) ==
    /\ ss[s].current_page = "profile"
    /\ ss[s].logged_in /\ ss[s].user_data # NoData
    /\ firebase_initialized

PrefChoices ==
    { [style |-> "Visual", pace |-> "Fast", difficulty |-> "Advanced"] }

UpdatePreferences(s, prefs) ==
    /\ ProfileReady(s)
    /\ work < MaxWork
    /\ LET x1 == [ss[s] EXCEPT !.user_data.learning_preferences = prefs]
           r == update_user_data(x1, store, x1.user_data)
       IN  /\ ss' = [ss EXCEPT ![s] = r.x]
           /\ store' = r.st
           /\ last' = Did(s, "update_preferences", IF r.ok THEN "ok" ELSE "failed",
                          << >>)
    /\ work' = work + 1
    /\ UNCHANGED <<pc, config>>

\* The multiselect's outcomes that the model exercises: the first n subjects.
FirstSubjects(n) == SubSeq(available_subjects, 1, n)
SubjectSelections == {FirstSubjects(n) : n \in {MAX_SUBJECTS, MAX_SUBJECTS + 1}}

\* Mutant of SubjectsAccepted: the limit is not checked.
SubjectsAccepted_Any(selected_subjects) == TRUE

SubjectsAccepted(selected_subjects) == ~(Len(selected_subjects) > MAX_SUBJECTS)

UpdateSubjects(s, selected_subjects) ==
    /\ ProfileReady(s)
    /\ IF SubjectsAccepted(selected_subjects)
       THEN /\ work < MaxWork
            /\ work' = work + 1
            /\ LET x1 == [ss[s] EXCEPT !.user_data.subjects = selected_subjects]
                   r == update_user_data(x1, store, x1.user_data)
               IN  /\ ss' = [ss EXCEPT ![s] = r.x]
                   /\ store' = r.st
                   /\ last' = Did(s, "update_subjects",
                                  IF r.ok THEN "ok" ELSE "failed", << >>)
       ELSE /\ UNCHANGED <<ss, store, work>>
            /\ last' = Did(s, "update_subjects", "too_many", << >>)
    /\ UNCHANGED <<pc, config>>

GoToTutor(s) ==
    /\ ProfileReady(s)
    /\ ss' = [ss EXCEPT ![s].current_page = "tutor"]
    /\ last' = Did(s, "go_to_tutor", "ok", << >>)
    /\ UNCHANGED <<pc, config, store, work>>

(***************************************************************************)
(* tutor_page(): subject selection                                         *)
(***************************************************************************)
\* Mutant of TutorReady: the chat API key is not checked.
TutorReady_NoKeyCheck(s) ==
    /\ ss[s].current_page = "tutor"
    /\ ss[s].logged_in /\ ss[s].user_data # NoData
    /\ firebase_initialized

TutorReady(s) ==
    /\ ss[s].current_page = "tutor"
    /\ ss[s].logged_in /\ ss[s].user_data # NoData
    /\ openai_initialized
    /\ firebase_initialized

\* The chat interface is shown; otherwise the subject selection form is.
Active(x) == x.current_study_subject # None /\ x.subject_context_loaded

\* The session after "Start Study Session" with the given subject, where
\* syl_ok / con_ok tell whether read_pdf_text / read_text_file return text.
StartResult(x, st, subject, grade, syl_ok, con_ok) ==
    IF subject = Placeholder THEN [x |-> x, st |-> st, outcome |-> "no_subject"]
    ELSE LET x1 == [x EXCEPT !.current_study_subject = subject] IN
         IF ~syl_ok THEN [x |-> x1, st |-> st, outcome |-> "no_syllabus"]
         ELSE IF ~con_ok THEN [x |-> x1, st |-> st, outcome |-> "no_context"]
         ELSE LET x2 == [x1 EXCEPT !.active_syllabus = SyllabusText(subject),
                                   !.active_subject_context = ContextText(subject),
                                   !.subject_context_loaded = TRUE]
                  x3 == ClearHistory(x2)
                  x4 == AppendMsg(x3, Msg("system",
                            initial_system_prompt(x3.current_study_subject, grade,
                                x3.active_syllabus, x3.active_subject_context)))
                  x5 == AppendMsg(x4, Msg("assistant",
                                          GreetingOf(x4.current_study_subject)))
              IN  [x |-> x5, st |-> save_chat_history(x5, st), outcome |-> "ok"]

StartSession(s, subject, grade, syl_ok, con_ok) ==
    /\ TutorReady(s)
    /\ ~Active(ss[s])
    /\ subject # Placeholder => work < MaxWork
    /\ LET r == StartResult(ss[s], store, subject, grade, syl_ok, con_ok) IN
       /\ ss' = [ss EXCEPT ![s] = r.x]
       /\ store' = r.st
       /\ last' = Did(s, "start_session", r.outcome, << >>)
    /\ work' = IF subject # Placeholder THEN work + 1 ELSE work
    /\ UNCHANGED <<pc, config>>

\* Mutant of ChangeSubject: the transcript is not cleared.
ChangeSubject_KeepTranscript(s) ==
    /\ TutorReady(s)
    /\ Active(ss[s])
    /\ ss' = [ss EXCEPT ![s].current_study_subject = None,
                        ![s].subject_context_loaded = FALSE]
    /\ last' = Did(s, "change_subject", "ok", << >>)
    /\ UNCHANGED <<pc, config, store, work>>

ChangeSubject(s) ==
    /\ TutorReady(s)
    /\ Active(ss[s])
    /\ ss' = [ss EXCEPT ![s] =
                 ClearHistory([@ EXCEPT !.current_study_subject = None,
                                        !.subject_context_loaded = FALSE])]
    /\ last' = Did(s, "change_subject", "ok", << >>)
    /\ UNCHANGED <<pc, config, store, work>>

BackToProfile(s) ==
    /\ TutorReady(s)
    /\ Active(ss[s])
    /\ ss' = [ss EXCEPT ![s].current_page = "profile"]
    /\ last' = Did(s, "back_to_profile", "ok", << >>)
    /\ UNCHANGED <<pc, config, store, work>>

(***************************************************************************)
(* tutor_page(): "Send to Tutor"                                           *)
(***************************************************************************)
Texts == {<< >>, <<"q1">>}           \* the text area's content
tutor_response == <<"a1">>           \* the reply of a successful chat call

\* Mutant of RefundSend: the token is not given back.
RefundSend_Missing(tokens) == tokens

ChargeSend(tokens) == tokens - 1
RefundSend(tokens) == tokens + 1

\* How the environment answers one send: the chat-completion call ("ok",
\* "api_error" for openai.APIError, "exception" for any other exception),
\* text_to_speech ("ok", or "fail": it returns None), and the steps between
\* the reply and the rerun ("ok", "audio_raise": st.audio raises,
\* "save_raise": the last save_chat_history raises).
SendEnvs ==
    { [api |-> "api_error", tts |-> "none", post |-> "none"],
      [api |-> "exception", tts |-> "none", post |-> "none"],
      [api |-> "ok", tts |-> "ok", post |-> "ok"],
      [api |-> "ok", tts |-> "fail", post |-> "ok"],
      [api |-> "ok", tts |-> "ok", post |-> "audio_raise"],
      [api |-> "ok", tts |-> "fail", post |-> "save_raise"] }

\* Mutant of NoTokens: the check is off by one.
NoTokens_Strict(current_tokens) == current_tokens < 0

\* The balance check of the send.
NoTokens(current_tokens) == current_tokens <= 0

\* A send is charged when it has text and the balance allows it.
SendCharged(x, text) == text # << >> /\ ~NoTokens(x.user_data.tokens)

\* Mutant of RaisesAfterReply: text_to_speech lets its exception out.
RaisesAfterReply_Tts(env) == env.post # "ok" \/ env.tts = "fail"

\* Whether a step between the reply and the rerun raises into the send's
\* except branches: text_to_speech catches its own exceptions and returns
\* None, so only st.audio and the last save_chat_history can.
RaisesAfterReply(env) == env.post # "ok"

\* Mutant of SendRollback: the rollback also takes the last message back.
SendRollback_DropMessage(x, st) ==
    LET x1 == [x EXCEPT !.user_data.tokens = RefundSend(@),
                        !.chat_history = SubSeq(@, 1, Len(@) - 1)]
    IN  update_user_data(x1, st, x1.user_data)

\* The except branches of the send: give the token back and write the record.
SendRollback(x, st) ==
    LET x1 == [x EXCEPT !.user_data.tokens = RefundSend(@)]
    IN  update_user_data(x1, st, x1.user_data)

\* Mutant of SendAtCall: the record is written after the transcript.
SendAtCall_RecordLast(x, st, text) ==
    LET x1 == AppendMsg([x EXCEPT !.user_data.tokens = ChargeSend(@)],
                        Msg("user", text))
        r1 == update_user_data(x1, save_chat_history(x1, st), x1.user_data)
    IN  [x |-> r1.x, st |-> r1.st]

\* The session and the store at the moment a charged send issues the
\* chat-completion call: the token is taken and the record written, then the
\* user message is appended and the transcript written.
SendAtCall(x, st, text) ==
    LET x1 == [x EXCEPT !.user_data.tokens = ChargeSend(@)]
        r1 == update_user_data(x1, st, x1.user_data)
        x2 == AppendMsg(r1.x, Msg("user", text))
    IN  [x |-> x2, st |-> save_chat_history(x2, r1.st)]

\* Mutant of SendCalls: a failed chat-completion call is tried again.
SendCalls_Retry(env) ==
    IF env.api # "ok" THEN <<"chat", "chat">> ELSE <<"chat", "tts">>

\* The external calls of a charged send, in order: one chat-completion call
\* in the try block (no loop, and the except branches call nothing), then
\* text_to_speech when the chat call returned.
SendCalls(env) ==
    IF env.api # "ok" THEN <<"chat">> ELSE <<"chat", "tts">>

SendResult(x, st, text, env) ==
    IF text = << >> THEN [x |-> x, st |-> st, outcome |-> "empty", calls |-> << >>]
    ELSE IF NoTokens(x.user_data.tokens)
    THEN [x |-> x, st |-> st, outcome |-> "no_tokens", calls |-> << >>]
    ELSE LET x2 == SendAtCall(x, st, text).x
             st2 == SendAtCall(x, st, text).st
         IN  IF env.api # "ok"
             THEN LET r == SendRollback(x2, st2)
                  IN  [x |-> r.x, st |-> r.st, outcome |-> "chat_failed",
                       calls |-> SendCalls(env)]
             ELSE LET x3 == AppendMsg(x2, Msg("assistant", tutor_response))
                  IN  IF RaisesAfterReply(env)
                      THEN LET r == SendRollback(x3, st2)
                           IN  [x |-> r.x, st |-> r.st, outcome |-> "post_raised",
                                calls |-> SendCalls(env)]
                      ELSE [x |-> x3, st |-> save_chat_history(x3, st2),
                            outcome |-> IF env.tts = "ok" THEN "ok" ELSE "ok_tts_failed",
                            calls |-> SendCalls(env)]

Send(s, text, env) ==
    /\ TutorReady(s)
    /\ Active(ss[s])
    /\ SendCharged(ss[s], text) => work < MaxWork
    /\ LET r == SendResult(ss[s], store, text, env) IN
       /\ ss' = [ss EXCEPT ![s] = r.x]
       /\ store' = r.st
       /\ last' = Did(s, "send", r.outcome, r.calls)
    /\ work' = IF SendCharged(ss[s], text) THEN work + 1 ELSE work
    /\ UNCHANGED <<pc, config>>

(***************************************************************************)
(* tutor_page(): "Generate Visual Explanation"                             *)
(***************************************************************************)
\* The content of the last assistant message, << >> when there is none.
RECURSIVE LastTutorMessage(_)
LastTutorMessage(h) ==
    IF h = << >> THEN << >>
    ELSE IF h[Len(h)].role = "assistant" THEN h[Len(h)].content
    ELSE LastTutorMessage(SubSeq(h, 1, Len(h) - 1))

\* How the environment answers one illustration request: the
\* prompt-condensation call ("ok": a prompt, "empty": an empty prompt,
\* "api_error", "exception") and what the image API would answer to a call
\* of generate_image ("url", "no_url": a response without a URL, "error":
\* the call raises).
IllustrateEnvs ==
    { [chat |-> "api_error", image |-> "none"],
      [chat |-> "exception", image |-> "none"],
      [chat |-> "empty", image |-> "none"],
      [chat |-> "ok", image |-> "url"],
      [chat |-> "ok", image |-> "no_url"],
      [chat |-> "ok", image |-> "error"] }
image_gen_prompt == <<"p1">>

\* Mutant of TooFewTokens: any positive balance is enough.
TooFewTokens_Positive(current_tokens) == current_tokens <= 0

\* Mutant of TooFewTokens: the check is off by one.
TooFewTokens_OffByOne(current_tokens) == current_tokens < IMAGE_GENERATION_COST - 1

\* The balance check of the illustration.
TooFewTokens(current_tokens) == current_tokens < IMAGE_GENERATION_COST

IllustrateCharged(x) == ~TooFewTokens(x.user_data.tokens)

\* Mutant of IllustrateRollback: the record is written without the refund.
IllustrateRollback_Missing(x, st) == update_user_data(x, st, x.user_data)

\* The except branches of the illustration: give the cost back and write the
\* record.
IllustrateRollback(x, st) ==
    LET x1 == [x EXCEPT !.user_data.tokens = @ + IMAGE_GENERATION_COST]
    IN  update_user_data(x1, st, x1.user_data)

\* The branch that has a prompt ends at the st.rerun() after the "Generating
\* a visual" message: st.rerun() raises the script-control exception, so the
\* call of generate_image that follows it in the source is never reached and
\* env.image is never consulted.
IllustrateResult(x, st, env) ==
    IF TooFewTokens(x.user_data.tokens)
    THEN [x |-> x, st |-> st, outcome |-> "no_tokens", calls |-> << >>]
    ELSE LET x1 == [x EXCEPT !.user_data.tokens = @ - IMAGE_GENERATION_COST]
             r1 == update_user_data(x1, st, x1.user_data)
         IN  IF LastTutorMessage(r1.x.chat_history) = << >>
             THEN [x |-> r1.x, st |-> r1.st, outcome |-> "no_tutor_message",
                   calls |-> << >>]
             ELSE IF env.chat \in {"api_error", "exception"}
             THEN LET r == IllustrateRollback(r1.x, r1.st)
                  IN  [x |-> r.x, st |-> r.st, outcome |-> "chat_failed",
                       calls |-> <<"chat">>]
             ELSE IF env.chat = "empty"
             THEN [x |-> r1.x, st |-> r1.st, outcome |-> "empty_prompt",
                   calls |-> <<"chat">>]
             ELSE LET x2 == AppendMsg(r1.x, Msg("assistant",
                                <<"Generating a visual for">> \o image_gen_prompt))
                  IN  [x |-> x2, st |-> save_chat_history(x2, r1.st),
                       outcome |-> "generating", calls |-> <<"chat">>]

Illustrate(s, env) ==
    /\ TutorReady(s)
    /\ Active(ss[s])
    /\ ~ss[s].generating_image
    /\ IllustrateCharged(ss[s]) => work < MaxWork
    /\ LET r == IllustrateResult(ss[s], store, env) IN
       /\ ss' = [ss EXCEPT ![s] = r.x]
       /\ store' = r.st
       /\ last' = Did(s, "illustrate", r.outcome, r.calls)
    /\ work' = IF IllustrateCharged(ss[s]) THEN work + 1 ELSE work
    /\ UNCHANGED <<pc, config>>

Next ==
    \E s \in {"s1"} :
        \/ \E page \in {"login", "register", "profile", "tutor"} : Navigate(s, page)
        \/ Logout(s)
        \/ \E u \in Usernames, p \in Passwords : Login(s, u, p)
        \/ FormLink(s)
        \/ \E form \in RegForms, salt \in Salts : Register(s, form, salt)
        \/ \E prefs \in PrefChoices : UpdatePreferences(s, prefs)
        \/ \E sel \in SubjectSelections : UpdateSubjects(s, sel)
        \/ GoToTutor(s)
        \/ \E subject \in StudySubjects \cup {Placeholder}, grade \in Grades,
              syl_ok \in BOOLEAN, con_ok \in BOOLEAN :
              StartSession(s, subject, grade, syl_ok, con_ok)
        \/ ChangeSubject(s)
        \/ BackToProfile(s)
        \/ \E text \in Texts, env \in SendEnvs : Send(s, text, env)
        \/ \E env \in IllustrateEnvs : Illustrate(s, env)

Spec == Init /\ [][Next]_vars

(***************************************************************************)
(* Two browser sessions.  Every session runs its script in a thread of its *)
(* own against the one store, so the handlers of the two sessions          *)
(* interleave, and a registration of one can fall between the check and    *)
(* the write of the other.                                                 *)
(***************************************************************************)
\* The session and the store after a login as username and the start of a
\* study session for subject, from a fresh browser session.
LoggedInActive(st, username, subject) ==
    StartResult(LoginSession(InitSession, st, username), st, subject,
                "High School", TRUE, TRUE)

\* Both browser sessions have logged in as alice and started a Biology
\* study session, s1 first.
InitTwo ==
    /\ config = [firebase_key |-> TRUE, openai_key |-> TRUE]
    /\ \E doc \in InitDocs :
          LET a == LoggedInActive([u \in {"alice"} |-> doc], "alice", "Biology")
              b == LoggedInActive(a.st, "alice", "Biology")
          IN  /\ ss = [s \in Sessions |-> IF s = "s1" THEN a.x ELSE b.x]
              /\ store = b.st
    /\ last = NoOp
    /\ work = 0
    /\ pc = [s \in Sessions |-> Idle]

\* The reply of the chat API and the steps after it all work.
SendOk == [api |-> "ok", tts |-> "ok", post |-> "ok"]

\* A session takes a new interaction only when its script run is over.
NextTwo ==
    \E s \in Sessions :
        \/ pc[s] = Idle /\ Logout(s)
        \/ pc[s] = Idle /\ FormLink(s)
        \/ pc[s] = Idle /\ Login(s, "alice", "pw1")
        \/ pc[s] = Idle /\ Send(s, <<"q1">>, SendOk)
        \/ \E form \in RegForms :
              /\ pc[s] = Idle
              /\ RegisterOutcome(store, form) # "created"
              /\ Register(s, form, "saltA")
        \/ \E form \in RegForms : RegisterCheck(s, form)
        \/ \E salt \in Salts : RegisterWrite(s, salt)

SpecTwo == InitTwo /\ [][NextTwo]_vars

(***************************************************************************)
(* Properties.  S1 is the browser session that Spec runs.                  *)
(***************************************************************************)
S1 == "s1"
Me == ss[S1]                    \* the session before a step (or in a state)
Me2 == ss'[S1]                  \* the session after a step
MyDoc == store[Me.username]
MyDoc2 == store'[Me.username]

\* C1: a send whose chat-completion call fails (an API error or any other
\* exception of the call) leaves the token balance, in the session's user
\* record and in the stored record, at its value before the send.
C1_FailedSendKeepsBalance ==
    [][last'.op = "send" => \A text \in Texts, env \in SendEnvs :
          (Send(S1, text, env) /\ SendCharged(Me, text) /\ env.api # "ok")
          => /\ last'.calls = <<"chat">>
             /\ Me2.user_data.tokens = Me.user_data.tokens
             /\ MyDoc2.tokens = MyDoc.tokens
             /\ MyDoc2.tokens = Me.user_data.tokens]_vars

\* C1 witness: a failed send has acted on alice's last token, which is back.
C1_Witness ==
    /\ last.op = "send" /\ last.outcome = "chat_failed"
    /\ Me.user_data.tokens = 1 /\ MyDoc.tokens = 1
    /\ Me.chat_history[Len(Me.chat_history)].role = "user"

\* C2 (as claimed): a send with text, in the Active state with balance b > 0,
\* whose chat-completion call succeeds leaves the balance at b - 1 and the
\* transcript longer by the user message followed by the assistant reply.
C2_SuccessfulSendChargesOne ==
    [][last'.op = "send" => \A text \in Texts, env \in SendEnvs :
          (Send(S1, text, env) /\ text # << >> /\ Me.user_data.tokens > 0
              /\ env.api = "ok")
          => /\ Me2.user_data.tokens = Me.user_data.tokens - 1
             /\ MyDoc2.tokens = Me.user_data.tokens - 1
             /\ Me2.chat_history = Me.chat_history
                    \o << Msg("user", text), Msg("assistant", tutor_response) >>]_vars

\* C3: a send attempted with a balance of 0 or less is rejected: no
\* chat-completion call is issued and the session (balance and transcript
\* included) and the stored records are unchanged.
C3_SendWithoutTokensRejected ==
    [][last'.op = "send" => \A text \in Texts, env \in SendEnvs :
          (Send(S1, text, env) /\ text # << >> /\ Me.user_data.tokens <= 0)
          => /\ last'.outcome = "no_tokens"
             /\ last'.calls = << >>
             /\ Me2 = Me
             /\ store' = store]_vars

\* C3 witness: a send was rejected at balance 0.
C3_Witness ==
    /\ last.op = "send" /\ last.outcome = "no_tokens"
    /\ Me.user_data.tokens = 0 /\ MyDoc.tokens = 0

\* C4: starting a study session for a subject whose syllabus and context
\* files both load leaves the transcript with exactly two entries, the
\* system message for that subject and then the assistant greeting, whatever
\* it held before, and makes the state Active for that subject.
C4_StartSeedsTranscript ==
    [][last'.op = "start_session" => \A subject \in StudySubjects, grade \in Grades :
          StartSession(S1, subject, grade, TRUE, TRUE)
          => /\ Len(Me2.chat_history) = 2
             /\ Me2.chat_history[1] =
                    Msg("system", initial_system_prompt(subject, grade,
                            SyllabusText(subject), ContextText(subject)))
             /\ Me2.chat_history[2] = Msg("assistant", GreetingOf(subject))
             /\ Active(Me2)
             /\ Me2.current_study_subject = subject
             /\ Me2.subject_context_loaded]_vars

\* C4 witness: a session was started over the transcript loaded at login
\* (still held by the user record), which was about another subject.
C4_Witness ==
    /\ last.op = "start_session" /\ last.outcome = "ok"
    /\ Len(Me.user_data.chat_history) = 2
    /\ Me.user_data.chat_history[1].content[2] = "Mathematics"
    /\ Len(Me.chat_history) = 2
    /\ Me.chat_history[1].content[2] = "Biology"

\* C5 (as claimed): starting a study session for a subject whose syllabus
\* or context file cannot be read leaves the active subject, the
\* context-loaded flag, the loaded texts and the transcript unchanged, and
\* the conversation in NoSubject.
C5_FailedStartChangesNothing ==
    [][last'.op = "start_session" => \A subject \in StudySubjects, grade \in Grades,
          syl_ok \in BOOLEAN, con_ok \in BOOLEAN :
          (StartSession(S1, subject, grade, syl_ok, con_ok) /\ ~(syl_ok /\ con_ok))
          => /\ Me2.current_study_subject = Me.current_study_subject
             /\ Me2.subject_context_loaded = Me.subject_context_loaded
             /\ Me2.active_syllabus = Me.active_syllabus
             /\ Me2.active_subject_context = Me.active_subject_context
             /\ Me2.chat_history = Me.chat_history
             /\ ~Active(Me2)]_vars

\* C6: changing subject from the Active state leaves the transcript empty,
\* whatever its length was, and the conversation in NoSubject (no active
\* subject, context not loaded); and a send is taken only in the Active
\* state, so none is accepted until a subject is started again.
C6_ChangeSubjectClears ==
    [][/\ ChangeSubject(S1)
          => /\ Me2.chat_history = << >>
             /\ Me2.current_study_subject = None
             /\ ~Me2.subject_context_loaded
             /\ ~Active(Me2)
       /\ last'.op = "send" => \A text \in Texts, env \in SendEnvs :
             Send(S1, text, env) => Active(Me)]_vars

\* C6 witness: the subject was changed after a send had made the transcript
\* four entries long (the store still holds them).
C6_Witness ==
    /\ last.op = "change_subject"
    /\ Me.chat_history = << >>
    /\ ~Active(Me)
    /\ Len(MyDoc.chat_history) = 4

\* C7: a registration submitted with a username that has a record fails,
\* creates nothing and leaves every field of every record unchanged.
C7_DuplicateRegistrationFails ==
    [][last'.op = "register" => \A form \in RegForms, salt \in Salts :
          (Register(S1, form, salt) /\ Exists(store, form.username))
          => /\ last'.outcome # "created"
             /\ store' = store]_vars

\* C7 witness: a valid form for an existing username was turned down.
C7_Witness == last.op = "register" /\ last.outcome = "exists"

\* The record of u holds the hash of password p (under the record's salt).
RegisteredWith(st, u, p) ==
    /\ Exists(st, u)
    /\ st[u].password_hash = hash_password(p, st[u].password_hash.salt)

\* C8: a registration with username u and password p stores the hash of p,
\* and a login with (u, p) for such a record succeeds (logged-in flag set,
\* session username u, session record and transcript loaded from the store,
\* page tutor), while a login with another password or an unknown username
\* fails and changes nothing in the session.
C8_LoginAfterRegistration ==
    [][/\ last'.op = "register" => \A form \in RegForms, salt \in Salts :
             (Register(S1, form, salt) /\ last'.outcome = "created")
             => RegisteredWith(store', form.username, form.password)
       /\ last'.op = "login" => \A u \in Usernames, p \in Passwords :
             Login(S1, u, p)
             => IF RegisteredWith(store, u, p)
                THEN /\ last'.outcome = "ok"
                     /\ Me2.logged_in
                     /\ Me2.username = u
                     /\ Me2.user_data = store[u]
                     /\ Me2.chat_history = store[u].chat_history
                     /\ Me2.current_page = "tutor"
                ELSE /\ last'.outcome \in {"not_found", "bad_password"}
                     /\ Me2 = Me]_vars

\* C8 witness: bob, registered in this run, has logged in.
C8_Witness ==
    /\ last.op = "login" /\ last.outcome = "ok"
    /\ Me.logged_in /\ Me.username = "bob"
    /\ Me.user_data = store["bob"]
    /\ RegisteredWith(store, "bob", "pw2")

\* C9: a profile subjects form with more than 5 subjects is rejected and
\* leaves the stored subject list and the session's copy unchanged; and the
\* stored subject list of every user has at most 5 entries in every state.
C9_AtMostFiveSubjects ==
    [][/\ last'.op = "update_subjects" => \A sel \in SubjectSelections :
             (UpdateSubjects(S1, sel) /\ Len(sel) > 5)
             => /\ last'.outcome = "too_many"
                /\ store' = store
                /\ Me2 = Me
       /\ \A u \in DOMAIN store : Len(store[u].subjects) <= 5
       /\ \A u \in DOMAIN store' : Len(store'[u].subjects) <= 5]_vars

\* C9 witness: a form with six subjects was rejected while five are stored.
C9_Witness ==
    /\ last.op = "update_subjects" /\ last.outcome = "too_many"
    /\ Len(MyDoc.subjects) = 5
    /\ Me.user_data.subjects = MyDoc.subjects

\* C10: in every reachable state the token balance of every user is at
\* least 0, in the session's user record and in the stored record.
C10_BalanceNeverNegative ==
    /\ \A u \in DOMAIN store : store[u].tokens >= 0
    /\ \A s \in Sessions : ss[s].user_data # NoData => ss[s].user_data.tokens >= 0

\* C10 witness: an illustration has taken alice's balance from 50 to 0.
C10_Witness ==
    /\ last.op = "illustrate" /\ last.outcome = "generating"
    /\ Me.user_data.tokens = 0 /\ MyDoc.tokens = 0

\* C11 (as claimed): in every reachable state a non-empty session transcript
\* starts with the system prompt of the currently active study subject (so
\* there is an active subject).
C11_TranscriptStartsWithActivePrompt ==
    Me.chat_history # << >>
    => /\ Me.current_study_subject \in StudySubjects
       /\ \E grade \in Grades :
             Me.chat_history[1] =
                 Msg("system", initial_system_prompt(Me.current_study_subject,
                         grade, SyllabusText(Me.current_study_subject),
                         ContextText(Me.current_study_subject)))

\* C12: an illustration request made with a balance below 50 is rejected up
\* front: no chat-completion call and no image-generation call is issued,
\* and the session (balance and transcript included) and the store are
\* unchanged.
C12_IllustrateWithoutTokensRejected ==
    [][last'.op = "illustrate" => \A env \in IllustrateEnvs :
          (Illustrate(S1, env) /\ Me.user_data.tokens < 50)
          => /\ last'.outcome = "no_tokens"
             /\ last'.calls = << >>
             /\ Me2 = Me
             /\ store' = store]_vars

\* C12 witness: an illustration was turned down at balance 49, with a tutor
\* message in the transcript.
C12_Witness ==
    /\ last.op = "illustrate" /\ last.outcome = "no_tokens"
    /\ Me.user_data.tokens = 49 /\ MyDoc.tokens = 49
    /\ LastTutorMessage(Me.chat_history) # << >>

\* C13: when the prompt-condensation call of an illustration request fails
\* (an API error or any other exception), the 50 tokens deducted up front
\* are given back: the balance in the session and in the store is the one
\* before the request, only the chat call was issued (no image call), and
\* the session transcript is unchanged.  (What the record writes of the
\* request do to the stored transcript is the subject of C16.)
C13_FailedCondensationRefunds ==
    [][last'.op = "illustrate" => \A env \in IllustrateEnvs :
          (Illustrate(S1, env) /\ IllustrateCharged(Me)
              /\ LastTutorMessage(Me.chat_history) # << >>
              /\ env.chat \in {"api_error", "exception"})
          => /\ last'.calls = <<"chat">>
             /\ Me2.user_data.tokens = Me.user_data.tokens
             /\ MyDoc2.tokens = MyDoc.tokens
             /\ MyDoc2.tokens = Me.user_data.tokens
             /\ Me2.chat_history = Me.chat_history]_vars

\* C13 witness: a condensation call failed on a balance of exactly 50, which
\* is back in the session and in the store.
C13_Witness ==
    /\ last.op = "illustrate" /\ last.outcome = "chat_failed"
    /\ last.calls = <<"chat">>
    /\ Me.user_data.tokens = 50 /\ MyDoc.tokens = 50

\* C14 (as claimed): when the image-generation step of an illustration
\* request fails (the image call raises or returns no URL), the 50-token
\* cost is refunded: the balance after the request, in the session and in
\* the store, is the balance before it.
C14_FailedImageRefunds ==
    [][last'.op = "illustrate" => \A env \in IllustrateEnvs :
          (Illustrate(S1, env) /\ IllustrateCharged(Me)
              /\ LastTutorMessage(Me.chat_history) # << >>
              /\ env.chat = "ok" /\ env.image \in {"no_url", "error"})
          => /\ Me2.user_data.tokens = Me.user_data.tokens
             /\ MyDoc2.tokens = Me.user_data.tokens]_vars

\* C15 (as claimed): an illustration request with balance >= 50 issues the
\* prompt-condensation call first and, whenever that returns a non-empty
\* prompt, the image-generation call after it within the same request; when
\* the image call returns a URL, an image-role message is appended to the
\* transcript.
C15_IllustrateCallsImageAfterPrompt ==
    [][last'.op = "illustrate" => \A env \in IllustrateEnvs :
          (Illustrate(S1, env) /\ Me.user_data.tokens >= 50
              /\ LastTutorMessage(Me.chat_history) # << >>)
          => /\ last'.calls # << >> /\ last'.calls[1] = "chat"
             /\ env.chat = "ok"
                => /\ last'.calls = <<"chat", "image">>
                   /\ env.image = "url"
                      => Me2.chat_history[Len(Me2.chat_history)].role = "image"]_vars

\* C16 (as claimed): a profile update of the learning preferences or of the
\* subject list leaves the stored token balance, password hash and chat
\* transcript of that user as they were immediately before the update.
C16_ProfileUpdatePreservesOtherFields ==
    [][(/\ last'.op \in {"update_preferences", "update_subjects"}
        /\ \/ \E prefs \in PrefChoices : UpdatePreferences(S1, prefs)
           \/ \E sel \in SubjectSelections : UpdateSubjects(S1, sel))
          => /\ MyDoc2.tokens = MyDoc.tokens
             /\ MyDoc2.password_hash = MyDoc.password_hash
             /\ MyDoc2.chat_history = MyDoc.chat_history]_vars

\* C17: a text-to-speech failure during a send whose chat-completion call
\* succeeded (the other steps of the send working) is not fatal: the user
\* message and the assistant reply are appended to the transcript and
\* written to the store, the one-token charge stands in the session and in
\* the store, and the session is still Active on the tutor page, where the
\* next send is taken.
C17_SpeechFailureNotFatal ==
    [][last'.op = "send" => \A text \in Texts, env \in SendEnvs :
          (Send(S1, text, env) /\ SendCharged(Me, text)
              /\ env.api = "ok" /\ env.tts = "fail" /\ env.post = "ok")
          => /\ last'.outcome = "ok_tts_failed"
             /\ Me2.chat_history = Me.chat_history
                    \o << Msg("user", text), Msg("assistant", tutor_response) >>
             /\ MyDoc2.chat_history = Me2.chat_history
             /\ Me2.user_data.tokens = Me.user_data.tokens - 1
             /\ MyDoc2.tokens = Me.user_data.tokens - 1
             /\ Active(Me2) /\ Me2.logged_in /\ Me2.current_page = "tutor"]_vars

\* C17 witness: a send went through without speech on the last token; the
\* reply is the last entry of the session's and of the stored transcript.
C17_Witness ==
    /\ last.op = "send" /\ last.outcome = "ok_tts_failed"
    /\ Me.user_data.tokens = 0 /\ MyDoc.tokens = 0
    /\ Len(Me.chat_history) = 4
    /\ Me.chat_history[4] = Msg("assistant", tutor_response)
    /\ MyDoc.chat_history = Me.chat_history
    /\ Active(Me)

\* C18: missing configuration disables the feature without a state change.
\* While the document store is not initialized, no login and no registration
\* is handled, the logged-in flag stays false and the store is unchanged;
\* while the chat API key is not available, no handler of the tutor page
\* runs, no external call is issued, no stored or session balance changes
\* and a session that stays on the tutor page is unchanged (transcript
\* included).
C18_MissingConfigurationDisables ==
    [][/\ ~firebase_initialized
          => /\ ~(\E u \in Usernames, p \in Passwords : Login(S1, u, p))
             /\ ~(\E form \in RegForms, salt \in Salts : Register(S1, form, salt))
             /\ ~Me.logged_in /\ ~Me2.logged_in
             /\ store' = store
       /\ ~openai_initialized
          => /\ ~(\E text \in Texts, env \in SendEnvs : Send(S1, text, env))
             /\ ~(\E env \in IllustrateEnvs : Illustrate(S1, env))
             /\ ~(\E subject \in StudySubjects \cup {Placeholder}, grade \in Grades,
                     syl_ok \in BOOLEAN, con_ok \in BOOLEAN :
                     StartSession(S1, subject, grade, syl_ok, con_ok))
             /\ ~ChangeSubject(S1) /\ ~BackToProfile(S1)
             /\ last'.calls = << >>
             /\ \A u \in DOMAIN store : store'[u].tokens = store[u].tokens
             /\ (Me.user_data # NoData /\ Me2.user_data # NoData)
                => Me2.user_data.tokens = Me.user_data.tokens
             /\ (Me.current_page = "tutor" /\ Me2.current_page = "tutor")
                => Me2 = Me]_vars

\* C18 witness: without the chat API key, alice is logged in and back on the
\* tutor page after a profile update, her balance and the transcript loaded
\* at login untouched.
C18_Witness ==
    /\ ~openai_initialized
    /\ Me.logged_in /\ Me.current_page = "tutor" /\ last.op = "go_to_tutor"
    /\ work > 0
    /\ Me.user_data.tokens = 50 /\ MyDoc.tokens = 50
    /\ Len(Me.chat_history) = 2

\* A registration form fails validation: the confirmation differs from the
\* password, or a required field is empty.
InvalidForm(form) ==
    \/ form.password # form.confirm_password
    \/ \E f \in {"first_name", "last_name", "username", "email", "password"} :
          form[f] = ""

\* C19: a registration whose confirmation differs from the password, or with
\* an empty first name, last name, username, email or password, creates no
\* record, changes no record and leaves the session on the registration
\* form; a registration that passes validation for a new username creates a
\* record with 1000 tokens, an empty subject list and an empty transcript
\* (the other records unchanged), does not log the user in, and sets the
\* page to login.
C19_RegistrationValidation ==
    [][last'.op = "register" => \A form \in RegForms, salt \in Salts :
          Register(S1, form, salt)
          => IF InvalidForm(form)
             THEN /\ last'.outcome \in {"mismatch", "empty_field"}
                  /\ store' = store
                  /\ Me2 = Me /\ Me2.current_page = "register"
             ELSE ~Exists(store, form.username)
                  => /\ last'.outcome = "created"
                     /\ DOMAIN store' = DOMAIN store \cup {form.username}
                     /\ \A u \in DOMAIN store : store'[u] = store[u]
                     /\ store'[form.username].tokens = 1000
                     /\ store'[form.username].subjects = << >>
                     /\ store'[form.username].chat_history = << >>
                     /\ store'[form.username].username = form.username
                     /\ ~Me2.logged_in /\ Me2.user_data = NoData
                     /\ Me2.current_page = "login"]_vars

\* C19 witness: a form whose confirmation differed was turned down after bob
\* had been registered with 1000 tokens, nothing in his subjects and
\* transcript.
C19_Witness ==
    /\ last.op = "register" /\ last.outcome = "mismatch"
    /\ Me.current_page = "register" /\ ~Me.logged_in
    /\ DOMAIN store = {"alice", "bob"}
    /\ store["bob"].tokens = 1000
    /\ store["bob"].subjects = << >> /\ store["bob"].chat_history = << >>

\* C20: in a send, the decremented balance and the user message are both in
\* the document store before the chat-completion call is issued: at the
\* moment of the call the stored balance is the balance before the send
\* minus 1 and the stored transcript ends with the user message.
C20_StoreWrittenBeforeCall ==
    [][last'.op = "send" => \A text \in Texts, env \in SendEnvs :
          (Send(S1, text, env) /\ SendCharged(Me, text))
          => LET doc == SendAtCall(Me, store, text).st[Me.username]
             IN  /\ last'.calls # << >> /\ last'.calls[1] = "chat"
                 /\ doc.tokens = Me.user_data.tokens - 1
                 /\ doc.tokens = MyDoc.tokens - 1
                 /\ doc.chat_history # << >>
                 /\ doc.chat_history[Len(doc.chat_history)] = Msg("user", text)
                 /\ doc.chat_history = Me.chat_history \o << Msg("user", text) >>]_vars

\* C20 witness: a chat-completion call was issued (and failed) in a session
\* whose record still holds the transcript loaded at login, after a start of
\* a new study session.
C20_Witness ==
    /\ last.op = "send" /\ last.outcome = "chat_failed"
    /\ last.calls = <<"chat">>
    /\ ~Me.hist_alias
    /\ Me.user_data.chat_history # Me.chat_history
    /\ Me.chat_history[Len(Me.chat_history)] = Msg("user", <<"q1">>)

\* The number of chat-completion calls in a sequence of external calls.
ChatCallCount(calls) == Cardinality({i \in DOMAIN calls : calls[i] = "chat"})

\* C21: each send issues at most one chat-completion call, and a failed call
\* is not retried: the handler of a send whose call failed issues that one
\* call and nothing after it.
C21_OneChatCallPerSend ==
    [][last'.op = "send" => \A text \in Texts, env \in SendEnvs :
          Send(S1, text, env)
          => /\ ChatCallCount(last'.calls) <= 1
             /\ (SendCharged(Me, text) /\ env.api # "ok")
                => last'.calls = <<"chat">>]_vars

\* C21 witness: the one call of a send has failed, on a balance of 50.
C21_Witness ==
    /\ last.op = "send" /\ last.outcome = "chat_failed"
    /\ ChatCallCount(last.calls) = 1 /\ Len(last.calls) = 1
    /\ Me.user_data.tokens = 50

\* Sequence a is a prefix of sequence b.
IsPrefix(a, b) == Len(a) <= Len(b) /\ SubSeq(b, 1, Len(a)) = a

\* C22: within a study session the session transcript is append-only and in
\* insertion order: after every send or illustration step the transcript
\* before the step is a prefix of the transcript after it.
C22_TranscriptAppendOnly ==
    [][(/\ last'.op \in {"send", "illustrate"}
        /\ \/ \E text \in Texts, env \in SendEnvs : Send(S1, text, env)
           \/ \E env \in IllustrateEnvs : Illustrate(S1, env))
          => IsPrefix(Me.chat_history, Me2.chat_history)]_vars

\* C22 witness: an illustration request has added its message after the two
\* entries a session start had left.
C22_Witness ==
    /\ last.op = "illustrate" /\ last.outcome = "generating"
    /\ Len(Me.chat_history) = 3
    /\ SubSeq(Me.chat_history, 1, 2) =
           SeedTranscript("Biology", "High School", SyllabusText("Biology"),
                          ContextText("Biology"))
    /\ Me.chat_history[3].role = "assistant"

\* C23 (as claimed): with two browser sessions registering the same new
\* username, a registration never overwrites a record that is in the store
\* at the moment of its write (so at most one of them creates the record).
C23_RegistrationNeverOverwrites ==
    [][\A s \in Sessions, salt \in Salts :
          RegisterWrite(s, salt) => ~Exists(store, pc[s].form.username)]_vars

\* C24 (as claimed): with two browser sessions logged in as the same user,
\* no token deduction of an interleaved send is lost: every successful send
\* leaves the stored balance one lower than it was before that send (so
\* that n successful sends leave it n lower than at the start).
C24_NoLostDeduction ==
    [][\A s \in Sessions :
          (Send(s, <<"q1">>, SendOk) /\ SendCharged(ss[s], <<"q1">>))
          => store'[ss[s].username].tokens = store[ss[s].username].tokens - 1]_vars

\* C25 (as claimed): in a single logged-in session, whenever a login, a
\* start of a study session, a send (successful or failed), a profile update
\* or a change of subject has completed, the transcript stored in the user's
\* record equals the session transcript.
C25_TranscriptMirrorsStore ==
    (/\ Me.logged_in
     /\ last.op \in {"login", "start_session", "send", "update_preferences",
                     "update_subjects", "change_subject"})
    => MyDoc.chat_history = Me.chat_history

\* C26 (as claimed): logout clears the logged-in flag, the session username,
\* the session user record and the session transcript and sets the page to
\* login; and it ends the study session: right after any successful login
\* the conversation is in NoSubject.
C26_LogoutEndsStudySession ==
    [][/\ Logout(S1)
          => /\ ~Me2.logged_in
             /\ Me2.username = None
             /\ Me2.user_data = NoData
             /\ Me2.chat_history = << >>
             /\ Me2.current_page = "login"
       /\ last'.op = "login" => \A u \in Usernames, p \in Passwords :
             (Login(S1, u, p) /\ last'.outcome = "ok") => ~Active(Me2)]_vars

\* C27: in every reachable state a set logged-in flag comes with a session
\* username and a session user record, and no profile update, start of a
\* study session, send, illustration or change of subject is handled while
\* the flag is false.  (A session without a login is on the login or the
\* registration page: the sidebar offers it no other, so the redirect to
\* login at the top of profile_page and tutor_page has nothing to do.)
C27_HandlersNeedLogin ==
    [][/\ Me.logged_in => (Me.username # None /\ Me.user_data # NoData)
       /\ Me2.logged_in => (Me2.username # None /\ Me2.user_data # NoData)
       /\ ~Me2.logged_in => Me2.current_page \in {"login", "register"}
       /\ (/\ last'.op \in {"update_preferences", "update_subjects",
                          "start_session", "send", "illustrate", "change_subject"}
           /\ \/ \E prefs \in PrefChoices : UpdatePreferences(S1, prefs)
              \/ \E sel \in SubjectSelections : UpdateSubjects(S1, sel)
              \/ \E subject \in StudySubjects \cup {Placeholder}, grade \in Grades,
                    syl_ok \in BOOLEAN, con_ok \in BOOLEAN :
                    StartSession(S1, subject, grade, syl_ok, con_ok)
              \/ \E text \in Texts, env \in SendEnvs : Send(S1, text, env)
              \/ \E env \in IllustrateEnvs : Illustrate(S1, env)
              \/ ChangeSubject(S1))
          => (Me.logged_in /\ Me2.logged_in)]_vars

\* C27 witness: after a logout the session still holds a loaded study
\* subject, without a login.
C27_Witness ==
    /\ last.op = "logout" /\ ~Me.logged_in
    /\ Me.username = None /\ Me.user_data = NoData
    /\ Me.current_study_subject = "Biology" /\ Me.subject_context_loaded

\* C28: after a send whose chat-completion call fails, the session
\* transcript is the transcript before the send extended by exactly the
\* user's message (no assistant entry; the rollback does not remove the
\* message), so that a send made on a transcript that ends with a user
\* message transmits a transcript whose last two entries are user messages.
C28_FailedSendKeepsUserMessage ==
    [][last'.op = "send" => \A text \in Texts, env \in SendEnvs :
          (Send(S1, text, env) /\ SendCharged(Me, text))
          => /\ env.api # "ok"
                => Me2.chat_history = Me.chat_history \o << Msg("user", text) >>
             /\ (Me.chat_history # << >>
                    /\ Me.chat_history[Len(Me.chat_history)].role = "user")
                => LET sent == SendAtCall(Me, store, text).x.chat_history
                   IN  /\ sent = Me.chat_history \o << Msg("user", text) >>
                       /\ sent[Len(sent) - 1].role = "user"
                       /\ sent[Len(sent)].role = "user"]_vars

\* C28 witness: a send followed a failed one: the third and fourth entries
\* of the transcript are both user messages.
C28_Witness ==
    /\ last.op = "send" /\ last.calls # << >>
    /\ Len(Me.chat_history) >= 4
    /\ Me.chat_history[2].role = "assistant"
    /\ Me.chat_history[3].role = "user"
    /\ Me.chat_history[4].role = "user"

\* C29 (as claimed): an illustration request made in the Active state when
\* the transcript holds no assistant message ends (with a warning) without
\* an external call and leaves the token balance, in the session and in the
\* store, as it was.
C29_IllustrateWithoutTutorMessage ==
    [][last'.op = "illustrate" => \A env \in IllustrateEnvs :
          (Illustrate(S1, env) /\ LastTutorMessage(Me.chat_history) = << >>)
          => /\ last'.calls = << >>
             /\ Me2.user_data.tokens = Me.user_data.tokens
             /\ MyDoc2.tokens = MyDoc.tokens]_vars

\* C30 (as claimed): a send gives its token back only when no assistant
\* reply was delivered: after every send in which the reply was appended to
\* the session transcript the balance, in the session and in the store, is
\* one lower than before the send, also when a step after the reply (the
\* audio playback or the transcript write) raises.
C30_RefundOnlyWithoutReply ==
    [][last'.op = "send" => \A text \in Texts, env \in SendEnvs :
          (/\ Send(S1, text, env) /\ SendCharged(Me, text)
           /\ Me2.chat_history = Me.chat_history
                  \o << Msg("user", text), Msg("assistant", tutor_response) >>)
          => /\ Me2.user_data.tokens = Me.user_data.tokens - 1
             /\ MyDoc2.tokens = Me.user_data.tokens - 1]_vars
====
